---- MODULE Spec2Model ----
(***************************************************************************)
(* The observable project store of the Drag&Drop demo: ProjectState (the   *)
(* record sequence, the listener list, addProject, moveProject,            *)
(* addListener, updateListeners) and the ProjectList views registered on   *)
(* it, the ProjectInput form that feeds it (validate, gatherUserInput,     *)
(* submitHandler) and the singleton accessor getInstance.                  *)
(*                                                                         *)
(* Objects have identity.  Project objects live in `heap` and are named by *)
(* their index; the arrays handed to listeners live in `arrays` and are    *)
(* named by their key.  `[...this.projects]` allocates a new array that    *)
(* holds the same Project references.                                      *)
(***************************************************************************)
EXTENDS Naturals, Sequences, FiniteSets, TLC

(* ------------------------------ bounds --------------------------------- *)

MaxProjects == 2
MaxListeners == 2

(* ------------------------------ inputs --------------------------------- *)

\* The strings Math.random().toString() may return.  Nothing makes two
\* draws differ.
IdValues == {"0.25", "0.75"}

\* An id no draw returns: a moveProject argument that matches no record.
NoSuchId == "0.99"

UserInputs ==
  { [title |-> "Build shed", description |-> "Wooden shed construction", people |-> 3],
    [title |-> "Paint", description |-> "Repaint the fence", people |-> 2] }

NoInput == [title |-> "", description |-> "", people |-> 0]

(* ------------------------------ Project -------------------------------- *)

Active == "Active"
Finished == "Finished"
ProjectStatus == {Active, Finished}

Project(id, title, description, people, status) ==
  [id |-> id, title |-> title, description |-> description,
   people |-> people, status |-> status]

(* ------------------------------ state ---------------------------------- *)

VARIABLES
  heap,       \* Project objects, by reference
  projects,   \* ProjectState.projects: references into heap
  listeners,  \* State.listeners: the registered closures, each with its captured state
  arrays,     \* the live snapshot arrays, by reference: sequences of Project references
  calls,      \* the listener invocations made by the last operation, in order
  op,         \* the last operation and its arguments
  nAdd,       \* the number of addProject calls made
  form,       \* ProjectInput: the values of the three input elements, and what the last submit gathered
  instance,   \* ProjectState.instance: 0 while undefined, else the object it refers to
  handles     \* the objects getInstance has returned so far

vars == <<heap, projects, listeners, arrays, calls, op, nAdd, form, instance, handles>>

\* The state outside the store object.
static == <<instance, handles>>

State ==
  [heap |-> heap, projects |-> projects, listeners |-> listeners,
   arrays |-> arrays, calls |-> calls]

\* The records a sequence of references leads to, as values.
Deep(refs, h) == [k \in 1..Len(refs) |-> h[refs[k]]]

Front(s) == SubSeq(s, 1, Len(s) - 1)

(* ------------------------------ listeners ------------------------------ *)

\* A closure as registered: a ProjectList view ('active' | 'finished') with
\* its assignedProjects and the <li> texts it rendered, or another callback
\* of type Listener<Project> that keeps the array it was handed.  `called`
\* records whether the closure has run.
NewListener(kind) ==
  [kind |-> kind, assignedProjects |-> <<>>, rendered |-> <<>>,
   held |-> 0, called |-> FALSE]

ViewKinds == {"active", "finished"}
Kinds == ViewKinds \cup {"probe"}
MutatingKinds == {"setTitle", "pop"}
ReentrantKinds == {"probe", "registrar"}

\* IsRelevant with the view's type ignored.
IsRelevantActiveOnly(type, project) == project.status = Active

\* The status a view keeps: the test of the filter callback.
IsRelevant(type, project) ==
  IF type = "active" THEN project.status = Active
  ELSE project.status = Finished

\* projects.filter(...): a new array of the references that pass.
FilterRelevant(type, items, h) ==
  SelectSeq(items, LAMBDA r : IsRelevant(type, h[r]))

\* renderProjects: the list is emptied and one <li> per assigned project is
\* appended, its text the project's title.
RenderProjects(assigned, h) == [k \in 1..Len(assigned) |-> h[assigned[k]].title]

\* The callback ProjectList.configure registers, run on array a.
ProjectListListener(st, i, a) ==
  LET relevantProjects == FilterRelevant(st.listeners[i].kind, st.arrays[a], st.heap)
  IN [st EXCEPT !.listeners[i].assignedProjects = relevantProjects,
                !.listeners[i].rendered = RenderProjects(relevantProjects, st.heap),
                !.listeners[i].called = TRUE]

\* A callback that only keeps the array it was handed.
ProbeListener(st, i, a) ==
  [st EXCEPT !.listeners[i].held = a, !.listeners[i].called = TRUE]

\* A callback that writes through the array it was handed: "setTitle" assigns
\* the title of the last element, "pop" removes the last element.
MutatingListener(st, i, a) ==
  LET items == st.arrays[a]
      kept == [st EXCEPT !.listeners[i].held = a, !.listeners[i].called = TRUE]
  IN IF Len(items) = 0 THEN kept
     ELSE IF st.listeners[i].kind = "setTitle"
          THEN [kept EXCEPT !.heap[items[Len(items)]].title = "Overwritten"]
          ELSE [kept EXCEPT !.arrays[a] = Front(items)]

\* A callback that, the first time it runs, registers another callback on the
\* store: projectState.addListener(fn), which is this.listeners.push(fn).
RegisteringListener(st, i, a) ==
  IF st.listeners[i].called THEN st
  ELSE [st EXCEPT !.listeners[i].called = TRUE,
                  !.listeners = Append(@, NewListener("probe"))]

\* listenerFn(a)
CallListener(st, i, a) ==
  IF st.listeners[i].kind \in ViewKinds THEN ProjectListListener(st, i, a)
  ELSE IF st.listeners[i].kind = "probe" THEN ProbeListener(st, i, a)
  ELSE IF st.listeners[i].kind = "registrar" THEN RegisteringListener(st, i, a)
  ELSE MutatingListener(st, i, a)

(* ------------------------------ the store ------------------------------ *)

\* The reference a newly allocated array gets: the least key not in use.
NewArray(arrs) ==
  CHOOSE n \in 1..(Cardinality(DOMAIN arrs) + 1) :
    /\ n \notin DOMAIN arrs
    /\ \A m \in 1..(n - 1) : m \in DOMAIN arrs

\* [...this.projects]: a new array holding the same references.
Snapshot(st) == (NewArray(st.arrays) :> st.projects) @@ st.arrays

\* What one invocation is logged as: the listener, the array passed, and the
\* array's elements and their records as they were when it was passed.
Call(st, i, a) ==
  [listener |-> i, snap |-> a, refs |-> st.arrays[a],
   items |-> Deep(st.arrays[a], st.heap)]

\* The body of the for..of loop for the listener at position i: the array is
\* built inside the loop, one per iteration.
NotifyOne(st, i) ==
  LET a == NewArray(st.arrays)
      st1 == [st EXCEPT !.arrays = Snapshot(st)]
      st2 == [st1 EXCEPT !.calls = Append(@, Call(st1, i, a))]
  IN CallListener(st2, i, a)

\* for (const listenerFn of this.listeners): the iterator reads the live
\* array, position by position, until it runs past its end.
RECURSIVE NotifyFrom(_, _)
NotifyFrom(st, i) ==
  IF i > Len(st.listeners) THEN st
  ELSE NotifyFrom(NotifyOne(st, i), i + 1)

\* updateListeners with the array built once, before the loop, and handed to
\* every listener.
RECURSIVE NotifySharedFrom(_, _, _)
NotifySharedFrom(st, i, a) ==
  IF i > Len(st.listeners) THEN st
  ELSE NotifySharedFrom(
         CallListener([st EXCEPT !.calls = Append(@, Call(st, i, a))], i, a),
         i + 1, a)

updateListenersShared(st) ==
  NotifySharedFrom([st EXCEPT !.arrays = Snapshot(st)], 1, NewArray(st.arrays))

\* updateListeners over the listeners there were when the loop began.
RECURSIVE NotifyUpTo(_, _, _)
NotifyUpTo(st, i, n) ==
  IF i > n THEN st
  ELSE NotifyUpTo(NotifyOne(st, i), i + 1, n)

updateListenersFixed(st) == NotifyUpTo(st, 1, Len(st.listeners))

\* updateListeners with the loop started one position late.
updateListenersSkipFirst(st) == NotifyFrom(st, 2)

updateListeners(st) == NotifyFrom(st, 1)

\* this.projects.find(prj => prj.id === projectId): the position of the
\* first match, 0 for undefined.
Find(st, projectId) ==
  LET hits == {k \in 1..Len(st.projects) : st.heap[st.projects[k]].id = projectId}
  IN IF hits = {} THEN 0
     ELSE CHOOSE k \in hits : \A m \in hits : k <= m

\* addProject with the listeners notified before the push.
addProjectNotifyFirst(st, obj, id) ==
  LET s == updateListeners(st)
  IN [s EXCEPT !.heap = Append(@, Project(id, obj.title, obj.description,
                                          obj.people, Active)),
               !.projects = Append(@, Len(s.heap) + 1)]

\* addProject with the sequence assigned instead of pushed to.
addProjectReplace(st, obj, id) ==
  updateListeners([st EXCEPT !.heap = Append(@, Project(id, obj.title,
                                                        obj.description,
                                                        obj.people, Active)),
                             !.projects = <<Len(st.heap) + 1>>])

\* addProject(obj), id being what Math.random().toString() returned.
addProject(st, obj, id) ==
  LET newProject == Project(id, obj.title, obj.description, obj.people, Active)
      ref == Len(st.heap) + 1
  IN updateListeners([st EXCEPT !.heap = Append(@, newProject),
                                !.projects = Append(@, ref)])

\* moveProject with updateListeners outside the if.
moveProjectAlwaysNotify(st, projectId, newStatus) ==
  LET k == Find(st, projectId)
  IN IF k # 0 /\ st.heap[st.projects[k]].status # newStatus
     THEN updateListeners([st EXCEPT !.heap[st.projects[k]].status = newStatus])
     ELSE updateListeners(st)

\* moveProject without the comparison of the statuses.
moveProjectNoStatusCheck(st, projectId, newStatus) ==
  LET k == Find(st, projectId)
  IN IF k # 0
     THEN updateListeners([st EXCEPT !.heap[st.projects[k]].status = newStatus])
     ELSE st

\* moveProject that also moves the record to the end of the sequence.
moveProjectReinsert(st, projectId, newStatus) ==
  LET k == Find(st, projectId)
  IN IF k # 0 /\ st.heap[st.projects[k]].status # newStatus
     THEN updateListeners(
            [st EXCEPT !.heap[st.projects[k]].status = newStatus,
                       !.projects = Append(SubSeq(@, 1, k - 1) \o SubSeq(@, k + 1, Len(@)),
                                           @[k])])
     ELSE st

moveProject(st, projectId, newStatus) ==
  LET k == Find(st, projectId)
  IN IF k # 0 /\ st.heap[st.projects[k]].status # newStatus
     THEN updateListeners([st EXCEPT !.heap[st.projects[k]].status = newStatus])
     ELSE st

\* addListener that also runs the callback on the current sequence.
addListenerEager(st, fn) ==
  NotifyOne([st EXCEPT !.listeners = Append(@, fn)], Len(st.listeners) + 1)

addListener(st, fn) == [st EXCEPT !.listeners = Append(@, fn)]

(* ------------------------------ actions -------------------------------- *)

\* The state an operation starts from: arrays no closure holds are gone, and
\* the log of invocations is this operation's.
HeldArrays == {listeners[i].held : i \in 1..Len(listeners)} \ {0}

Begin ==
  [State EXCEPT !.arrays = [k \in (DOMAIN arrays \cap HeldArrays) |-> arrays[k]],
                !.calls = <<>>]

Commit(st) ==
  /\ heap' = st.heap
  /\ projects' = st.projects
  /\ listeners' = st.listeners
  /\ arrays' = st.arrays
  /\ calls' = st.calls

NoOp ==
  [name |-> "none", obj |-> NoInput, id |-> "", status |-> "none",
   kind |-> "none", before |-> "none", again |-> FALSE]

\* The status of the record find returns, "none" when it returns undefined.
StatusOf(st, projectId) ==
  IF Find(st, projectId) = 0 THEN "none"
  ELSE st.heap[st.projects[Find(st, projectId)]].status

\* The input elements as the template gives them: no text in any.
EmptyForm == [title |-> <<>>, description |-> <<>>, people |-> <<>>, gathered |-> <<>>]

\* Init is the state once the module is loaded: `projectState =
\* ProjectState.getInstance()` has run, on a class whose static field was
\* undefined.
Init ==
  /\ heap = <<>>
  /\ projects = <<>>
  /\ listeners = <<>>
  /\ arrays = <<>>
  /\ calls = <<>>
  /\ op = NoOp
  /\ nAdd = 0
  /\ form = EmptyForm
  /\ instance = 1
  /\ handles = {1}

AddProject ==
  \E obj \in UserInputs, id \in IdValues :
    /\ nAdd < MaxProjects
    /\ Commit(addProject(Begin, obj, id))
    /\ op' = [NoOp EXCEPT !.name = "addProject", !.obj = obj, !.id = id]
    /\ nAdd' = nAdd + 1
    /\ UNCHANGED <<form, static>>

MoveProject ==
  \E projectId \in IdValues \cup {NoSuchId}, newStatus \in ProjectStatus :
    /\ Commit(moveProject(Begin, projectId, newStatus))
    /\ op' = [NoOp EXCEPT !.name = "moveProject", !.id = projectId,
                          !.status = newStatus,
                          !.before = StatusOf(State, projectId),
                          !.again = /\ op.name = "moveProject"
                                    /\ op.id = projectId
                                    /\ op.status = newStatus
                                    /\ op.before \in ProjectStatus \ {newStatus}]
    /\ UNCHANGED <<nAdd, form, static>>

AddListener ==
  \E kind \in Kinds :
    /\ Len(listeners) < MaxListeners
    /\ Commit(addListener(Begin, NewListener(kind)))
    /\ op' = [NoOp EXCEPT !.name = "addListener", !.kind = kind]
    /\ UNCHANGED <<nAdd, form, static>>

\* A callback that writes through what it is handed is registered.
AddMutatingListener ==
  \E kind \in MutatingKinds :
    /\ Len(listeners) < MaxListeners
    /\ Commit(addListener(Begin, NewListener(kind)))
    /\ op' = [NoOp EXCEPT !.name = "addListener", !.kind = kind]
    /\ UNCHANGED <<nAdd, form, static>>

Next == AddProject \/ MoveProject \/ AddListener

Spec == Init /\ [][Next]_vars

\* Callbacks that write through their argument may be registered too.
NextMut == AddProject \/ MoveProject \/ AddListener \/ AddMutatingListener

SpecMut == Init /\ [][NextMut]_vars

\* Callbacks that register a callback when they run may be registered.
AddReentrantListener ==
  \E kind \in ReentrantKinds :
    /\ Len(listeners) < MaxListeners
    /\ Commit(addListener(Begin, NewListener(kind)))
    /\ op' = [NoOp EXCEPT !.name = "addListener", !.kind = kind]
    /\ UNCHANGED <<nAdd, form, static>>

NextReentrant == AddProject \/ MoveProject \/ AddReentrantListener

SpecReentrant == Init /\ [][NextReentrant]_vars

(* ------------------------------ the singleton -------------------------- *)

\* ProjectState objects are named 1, 2, ... in the order constructed; the
\* store variables hold the state of the object the static field refers to.

\* getInstance with the test of the static field left out.
getInstanceAlwaysNew(inst) ==
  [instance |-> inst + 1, result |-> inst + 1, constructed |-> TRUE]

\* getInstance(): the static field after the call, the object returned, and
\* whether `new ProjectState()` ran.
getInstance(inst) ==
  IF inst # 0
  THEN [instance |-> inst, result |-> inst, constructed |-> FALSE]
  ELSE [instance |-> inst + 1, result |-> inst + 1, constructed |-> TRUE]

\* The class before its first access.
InitLazy ==
  /\ heap = <<>>
  /\ projects = <<>>
  /\ listeners = <<>>
  /\ arrays = <<>>
  /\ calls = <<>>
  /\ op = NoOp
  /\ nAdd = 0
  /\ form = EmptyForm
  /\ instance = 0
  /\ handles = {}

\* ProjectState.getInstance() is called.  A newly constructed object has
\* listeners = [] and projects = [].
GetInstance ==
  LET r == getInstance(instance)
  IN /\ instance' = r.instance
     /\ handles' = handles \cup {r.result}
     /\ IF r.constructed
        THEN heap' = <<>> /\ projects' = <<>> /\ listeners' = <<>> /\ arrays' = <<>>
        ELSE UNCHANGED <<heap, projects, listeners, arrays>>
     /\ calls' = <<>>
     /\ op' = [NoOp EXCEPT !.name = "getInstance"]
     /\ UNCHANGED <<nAdd, form>>

\* The store is used through what getInstance returned.
NextSingleton ==
  \/ GetInstance
  \/ handles # {} /\ AddProject
  \/ handles # {} /\ AddListener

SpecSingleton == InitLazy /\ [][NextSingleton]_vars

(* ------------------------------ the form ------------------------------- *)

\* The text of an input element is a sequence of characters.
Digits == {"0", "1", "2", "3", "4", "5", "6", "7", "8", "9"}

DigitValue(c) ==
  CASE c = "0" -> 0 [] c = "1" -> 1 [] c = "2" -> 2 [] c = "3" -> 3
    [] c = "4" -> 4 [] c = "5" -> 5 [] c = "6" -> 6 [] c = "7" -> 7
    [] c = "8" -> 8 [] c = "9" -> 9

\* String.prototype.trim: the text without its leading and trailing blanks.
RECURSIVE Trim(_)
Trim(s) ==
  IF Len(s) = 0 THEN s
  ELSE IF Head(s) = " " THEN Trim(Tail(s))
  ELSE IF s[Len(s)] = " " THEN Trim(Front(s))
  ELSE s

\* A number is n / 10^k, or NaN.
NaN == [nan |-> TRUE, n |-> 0, k |-> 0]

Number(n, k) == [nan |-> FALSE, n |-> n, k |-> k]

RECURSIVE Pow10(_)
Pow10(k) == IF k = 0 THEN 1 ELSE 10 * Pow10(k - 1)

\* The value of a run of digits read after the value so far.
RECURSIVE DigitsValue(_, _)
DigitsValue(s, acc) ==
  IF Len(s) = 0 THEN acc
  ELSE DigitsValue(Tail(s), 10 * acc + DigitValue(Head(s)))

\* Unary plus on a string: blanks are trimmed, the empty text is 0, a
\* decimal literal (digits with at most one point and at least one digit) is
\* its value, and any other text is NaN.
ToNumber(text) ==
  LET s == Trim(text)
      points == {i \in 1..Len(s) : s[i] = "."}
      digits == SelectSeq(s, LAMBDA c : c \in Digits)
  IN IF Len(s) = 0 THEN Number(0, 0)
     ELSE IF \/ \E i \in 1..Len(s) : s[i] \notin Digits \cup {"."}
             \/ Cardinality(points) > 1
             \/ Len(digits) = 0
          THEN NaN
     ELSE IF points = {} THEN Number(DigitsValue(digits, 0), 0)
     ELSE Number(DigitsValue(digits, 0), Len(s) - (CHOOSE i \in points : TRUE))

\* value >= bound and value <= bound for a number and an integer bound; a
\* comparison with NaN is false.
AtLeast(value, bound) == ~value.nan /\ value.n >= bound * Pow10(value.k)

AtMost(value, bound) == ~value.nan /\ value.n <= bound * Pow10(value.k)

\* The Validate objects gatherUserInput builds: `has` names the optional
\* properties that are set, isString is typeof value === 'string'.
TextValidator(text, has, minLength) ==
  [value |-> text, isString |-> TRUE, has |-> has \cup {"required"},
   minLength |-> minLength, maxLength |-> 0, min |-> 0, max |-> 0]

\* validate(input).  value.toString() of a number is never blank (it is at
\* least one digit, or "NaN"), so `required` passes for every number.
validate(input) ==
  LET required == IF "required" \in input.has /\ input.isString
                  THEN Len(Trim(input.value)) # 0
                  ELSE TRUE
      minLength == IF "minLength" \in input.has /\ input.isString
                   THEN Len(Trim(input.value)) >= input.minLength
                   ELSE TRUE
      maxLength == IF "maxLength" \in input.has /\ input.isString
                   THEN Len(Trim(input.value)) <= input.maxLength
                   ELSE TRUE
      min == IF "min" \in input.has /\ ~input.isString
             THEN AtLeast(input.value, input.min)
             ELSE TRUE
      max == IF "max" \in input.has /\ ~input.isString
             THEN AtMost(input.value, input.max)
             ELSE TRUE
  IN required /\ minLength /\ maxLength /\ min /\ max

MinDescriptionLength == 5
MinPeople == 1
MaxPeople == 5

\* gatherUserInput(): the tuple [title, description, +people], or nothing.
gatherUserInput(f) ==
  LET titleValidator == TextValidator(f.title, {}, 0)
      descValidator == TextValidator(f.description, {"minLength"}, MinDescriptionLength)
      peopleValidator ==
        [value |-> ToNumber(f.people), isString |-> FALSE,
         has |-> {"required", "min", "max"},
         minLength |-> 0, maxLength |-> 0, min |-> MinPeople, max |-> MaxPeople]
  IN IF ~validate(titleValidator) \/ ~validate(descValidator)
        \/ ~validate(peopleValidator)
     THEN [isArray |-> FALSE, title |-> <<>>, description |-> <<>>, people |-> NaN]
     ELSE [isArray |-> TRUE, title |-> f.title, description |-> f.description,
           people |-> ToNumber(f.people)]

\* clearInputs()
clearInputs(f) == [f EXCEPT !.title = <<>>, !.description = <<>>, !.people = <<>>]

\* submitHandler(event): the store and the form it leaves, id being what
\* Math.random().toString() returns if addProject is reached.
submitHandler(st, f, id) ==
  LET userInput == gatherUserInput(f)
  IN IF userInput.isArray
     THEN [store |-> addProject(st, [title |-> userInput.title,
                                     description |-> userInput.description,
                                     people |-> userInput.people], id),
           form |-> clearInputs(f)]
     ELSE [store |-> st, form |-> f]

\* What the user may have typed into the three inputs.
TitleTexts == {<<>>, <<" ">>, <<"S", "h", "e", "d">>}

DescriptionTexts ==
  {<<>>, <<"s", "h", "e", "d">>, <<"s", "h", "e", "d", "s">>,
   <<" ", "s", "h", "e", " ">>}

PeopleTexts ==
  {<<>>, <<"0">>, <<"1">>, <<" ", "5">>, <<"6">>, <<"2", ".", "5">>, <<"x">>}

\* The page as the script leaves it: the form, then the active and the
\* finished list, each registering its listener.
InitForm ==
  /\ heap = <<>>
  /\ projects = <<>>
  /\ listeners = <<NewListener("active"), NewListener("finished")>>
  /\ arrays = <<>>
  /\ calls = <<>>
  /\ op = NoOp
  /\ nAdd = 0
  /\ form = EmptyForm
  /\ instance = 1
  /\ handles = {1}

\* The user edits the inputs.
TypeInput ==
  \E t \in TitleTexts, d \in DescriptionTexts, p \in PeopleTexts :
    /\ form' = [title |-> t, description |-> d, people |-> p, gathered |-> <<>>]
    /\ op' = [NoOp EXCEPT !.name = "input"]
    /\ UNCHANGED <<heap, projects, listeners, arrays, calls, nAdd, static>>

\* The form is submitted.
Submit ==
  \E id \in IdValues :
    /\ nAdd < MaxProjects
    /\ LET r == submitHandler(Begin, form, id)
       IN /\ Commit(r.store)
          /\ form' = [r.form EXCEPT !.gathered = <<form.title, form.description, form.people>>]
          /\ nAdd' = Len(r.store.projects)
    /\ op' = [NoOp EXCEPT !.name = "submit", !.id = id]
    /\ UNCHANGED static

NextForm == TypeInput \/ Submit

SpecForm == InitForm /\ [][NextForm]_vars

(* ------------------------------ properties ----------------------------- *)

\* The listeners a log of invocations names, in the order invoked.
CallOrder(c) == [k \in 1..Len(c) |-> c[k].listener]

Positions(n) == [k \in 1..n |-> k]

Last(s) == s[Len(s)]

\* C1: after addProject(t, d, p) every registered listener has been handed a
\* snapshot whose last element has title t, description d, people p and
\* status Active, and whose earlier elements are the records the store held
\* before the call, in creation order.
C1_AddProjectSnapshot ==
  [][nAdd' = nAdd + 1 =>
       \A i \in 1..Len(listeners) :
         \E k \in 1..Len(calls') :
           /\ calls'[k].listener = i
           /\ Len(calls'[k].items) = Len(projects) + 1
           /\ Last(calls'[k].items).title = op'.obj.title
           /\ Last(calls'[k].items).description = op'.obj.description
           /\ Last(calls'[k].items).people = op'.obj.people
           /\ Last(calls'[k].items).status = Active
           /\ Front(calls'[k].refs) = projects
           /\ Front(calls'[k].items) = Deep(projects, heap)]_vars

C1_Witness ==
  /\ op.name = "addProject"
  /\ Len(projects) = 2
  /\ Len(listeners) = 2
  /\ Len(calls) = 2
  /\ \A k \in 1..2 : Last(calls[k].items).title = op.obj.title
  /\ calls[2].items[1].status = Finished

\* C2: moveProject with an id that matches no record changes nothing: the
\* records, their sequence and the listeners' states are as before and no
\* listener is invoked.
C2_MoveMissingIsNoOp ==
  [][op'.name = "moveProject" /\ Find(State, op'.id) = 0 =>
       /\ UNCHANGED <<heap, projects, listeners>>
       /\ calls' = <<>>]_vars

C2_Witness ==
  /\ op.name = "moveProject"
  /\ op.id = NoSuchId
  /\ Find(State, op.id) = 0
  /\ Len(projects) = 2
  /\ Len(listeners) = 2
  /\ calls = <<>>

\* C3: of two moveProject(id, Finished) calls in a row on a record that was
\* Active, the first sets the status and invokes every listener once, the
\* second changes nothing and invokes none.
C3_SecondMoveIsNoOp ==
  [][op'.again /\ op'.status = Finished =>
       /\ StatusOf(State, op.id) = Finished
       /\ CallOrder(calls) = Positions(Len(listeners))
       /\ UNCHANGED <<heap, projects, listeners>>
       /\ calls' = <<>>]_vars

C3_Witness ==
  /\ op.again
  /\ op.status = Finished
  /\ op.before = Finished
  /\ Len(listeners) = 2
  /\ calls = <<>>

\* C4: what a listener does to the snapshot it was handed leaves the store's
\* records and the snapshots handed to the listeners before it as they were:
\* after the operation the store's records are those every listener was
\* handed, and each earlier snapshot still has the elements and the records
\* it had when it was handed over.
C4_SnapshotsIndependent ==
  \A k \in 1..Len(calls) :
    /\ Deep(projects, heap) = calls[k].items
    /\ k < Len(calls) =>
         /\ arrays[calls[k].snap] = calls[k].refs
         /\ Deep(arrays[calls[k].snap], heap) = calls[k].items

\* C5: no two records of the store have the same id.
C5_UniqueIds ==
  \A j, k \in 1..Len(projects) :
    j # k => heap[projects[j]].id # heap[projects[k]].id

\* C6: the store holds as many records as addProject calls were made; no
\* other operation adds or removes one.
C6_LengthIsAddCount ==
  /\ Len(projects) = nAdd
  /\ Len(heap) = nAdd
  /\ projects = Positions(nAdd)

C6_Witness ==
  /\ nAdd = 2
  /\ Len(projects) = 2
  /\ op.name = "moveProject"
  /\ op.before = Active
  /\ op.status = Finished
  /\ Len(listeners) = 2

\* The status a view of the given type is for.
StatusShown(type) == IF type = "active" THEN Active ELSE Finished

\* C7: a view that has been handed a snapshot shows exactly the records of
\* its own status, in the store's order, and renders their titles: the
\* records of that status in the snapshot it was handed last, which are the
\* store's records of that status.
C7_ViewShowsOwnStatus ==
  \A i \in 1..Len(listeners) :
    listeners[i].kind \in ViewKinds /\ listeners[i].called =>
      LET want == StatusShown(listeners[i].kind)
          shown == listeners[i].assignedProjects
      IN /\ shown = SelectSeq(projects, LAMBDA r : heap[r].status = want)
         /\ listeners[i].rendered = [k \in 1..Len(shown) |-> heap[shown[k]].title]
         /\ \A k \in 1..Len(calls) :
              calls[k].listener = i =>
                /\ \A n \in 1..Len(shown) :
                     \E m \in 1..Len(calls[k].refs) :
                       /\ calls[k].refs[m] = shown[n]
                       /\ calls[k].items[m].status = want
                /\ \A m \in 1..Len(calls[k].refs) :
                     calls[k].items[m].status = want =>
                       \E n \in 1..Len(shown) : shown[n] = calls[k].refs[m]

C7_Witness ==
  /\ op.name = "moveProject"
  /\ op.before = Active
  /\ op.status = Finished
  /\ Len(projects) = 2
  /\ Len(listeners) = 2
  /\ listeners[1].kind = "active"
  /\ listeners[2].kind = "finished"
  /\ Len(calls) = 2
  /\ \A n \in 1..Len(listeners[1].assignedProjects) :
       listeners[1].assignedProjects[n] # projects[Find(State, op.id)]
  /\ \E n \in 1..Len(listeners[2].assignedProjects) :
       listeners[2].assignedProjects[n] = projects[Find(State, op.id)]

\* C8: an operation that changes the store's records invokes every
\* registered listener exactly once, in registration order, before it
\* returns.
C8_NotifiesAllInOrder ==
  [][heap' # heap \/ projects' # projects =>
       /\ Len(listeners') = Len(listeners)
       /\ CallOrder(calls') = Positions(Len(listeners))
       /\ \A i \in 1..Len(listeners') : listeners'[i].called]_vars

C8_Witness ==
  /\ op.name = "moveProject"
  /\ op.before = Finished
  /\ op.status = Active
  /\ Len(listeners) = 2
  /\ CallOrder(calls) = <<1, 2>>
  /\ listeners[1].kind # listeners[2].kind

\* C9 as stated: all listeners invoked for one state change are handed the
\* same array.
C9_SameReference ==
  \A j, k \in 1..Len(calls) : calls[j].snap = calls[k].snap

\* C9 as amended: each listener invoked for one state change is handed an
\* array of its own, and all these arrays hold the same record references in
\* the same order, those of the store's sequence.
C9_SeparateCopies ==
  \A j, k \in 1..Len(calls) :
    /\ j # k => calls[j].snap # calls[k].snap
    /\ calls[j].refs = calls[k].refs
    /\ calls[j].refs = projects

C9_Witness ==
  /\ Len(calls) = 2
  /\ Len(projects) = 2
  /\ calls[1].snap # calls[2].snap
  /\ listeners[1].kind = "probe"
  /\ listeners[2].kind = "probe"
  /\ listeners[1].held # listeners[2].held

\* C10: addListener appends the callback and does nothing else: no listener
\* is invoked and the records are as before.  A callback has run only if it
\* had run before or the step changed the store's records.
C10_AddListenerOnlyRegisters ==
  [][/\ Len(listeners') = Len(listeners) + 1 =>
          /\ UNCHANGED <<heap, projects>>
          /\ calls' = <<>>
          /\ SubSeq(listeners', 1, Len(listeners)) = listeners
          /\ Last(listeners') = NewListener(op'.kind)
     /\ \A i \in 1..Len(listeners') :
          listeners'[i].called <=>
            \/ i <= Len(listeners) /\ listeners[i].called
            \/ heap' # heap]_vars

C10_Witness ==
  /\ op.name = "addListener"
  /\ Len(projects) = 2
  /\ Len(listeners) = 2
  /\ listeners[1].called
  /\ ~listeners[2].called
  /\ listeners[2].assignedProjects = <<>>
  /\ listeners[2].held = 0

\* A number that is an integer.
IsInteger(value) == ~value.nan /\ value.n % Pow10(value.k) = 0

\* The rules as the claim states them, of the three texts a submit gathered.
RulesHold(g) ==
  /\ Len(g[1]) > 0
  /\ Len(g[2]) >= 5
  /\ IsInteger(ToNumber(g[3]))
  /\ AtLeast(ToNumber(g[3]), 1)
  /\ AtMost(ToNumber(g[3]), 5)

\* C11: a submit calls addProject (the store gets a record and the listeners
\* are notified) only when the title is non-empty, the description has at
\* least 5 characters and the people count is an integer from 1 to 5; when a
\* rule is violated addProject is not reached: no listener is notified and
\* the inputs keep their text.
C11_AddOnlyWhenValid ==
  op.name = "submit" /\ ~RulesHold(form.gathered) =>
    /\ calls = <<>>
    /\ form.title = form.gathered[1]
    /\ form.description = form.gathered[2]
    /\ form.people = form.gathered[3]

\* C12: every call of getInstance returns the same object; the object is
\* constructed at the first call and the static field is never assigned
\* again; a call leaves the records and the listeners as they are, so what
\* was registered through one result is there through every later one.
C12_SameInstance ==
  [][/\ handles' \subseteq {instance'}
     /\ (instance' # 0) <=> (handles' # {})
     /\ instance # 0 => instance' = instance
     /\ op'.name = "getInstance" =>
          UNCHANGED <<heap, projects, listeners>>]_vars

C12_Witness ==
  /\ op.name = "getInstance"
  /\ handles = {instance}
  /\ instance # 0
  /\ Len(projects) = 2
  /\ Len(listeners) = 2
  /\ listeners[1].called

\* C13: a moveProject that finds a record of another status assigns that
\* record's status and nothing else: its other fields, every other record,
\* the sequence and its order, and the registered listeners are as before.
C13_MoveChangesOnlyStatus ==
  [][op'.name = "moveProject" /\ op'.before \in ProjectStatus \ {op'.status} =>
       LET r == projects[Find(State, op'.id)]
       IN /\ heap' = [heap EXCEPT ![r].status = op'.status]
          /\ heap'[r].status # heap[r].status
          /\ projects' = projects
          /\ Len(listeners') = Len(listeners)
          /\ \A i \in 1..Len(listeners) : listeners'[i].kind = listeners[i].kind]_vars

C13_Witness ==
  /\ op.name = "moveProject"
  /\ op.before = Active
  /\ op.status = Finished
  /\ Len(projects) = 2
  /\ Find(State, op.id) = 1
  /\ heap[projects[1]].status = Finished
  /\ heap[projects[2]].status = Active
  /\ heap[projects[1]].title # heap[projects[2]].title
  /\ Len(listeners) = 1

\* The registering callbacks that have not run yet.
Pending == {i \in 1..Len(listeners) :
              listeners[i].kind = "registrar" /\ ~listeners[i].called}

\* C14: the notification loop reads the live listener list: a callback
\* registered from inside a callback during a round is itself invoked later
\* in that round, once, after the listeners registered before it, with a
\* copy of the current sequence.
C14_RegisteredDuringRoundIsInvoked ==
  [][heap' # heap =>
       /\ Len(listeners') = Len(listeners) + Cardinality(Pending)
       /\ CallOrder(calls') = Positions(Len(listeners'))
       /\ \A k \in 1..Len(calls') : calls'[k].refs = projects'
       /\ \A i \in 1..Len(listeners') :
            listeners'[i].kind = "probe" => listeners'[i].called]_vars

C14_Witness ==
  /\ op.name = "addProject"
  /\ nAdd = 1
  /\ Len(listeners) = 4
  /\ listeners[1].kind = "registrar"
  /\ listeners[2].kind = "registrar"
  /\ listeners[3].kind = "probe"
  /\ listeners[4].kind = "probe"
  /\ listeners[3].called
  /\ listeners[4].called
  /\ CallOrder(calls) = <<1, 2, 3, 4>>
  /\ calls[4].refs = projects

====
